---- MODULE Spec2Model ----
(***************************************************************************)
(* A model of ml-converter: the column-normalisation engine of             *)
(* src/src/converters.py, and the download handler, the cleanup scheduler, *)
(* the cleanup job and the upload handler of src/src/app.py.               *)
(*                                                                         *)
(* A Python str is a sequence of characters; a character is a one-element  *)
(* TLA+ string, or a short token for a character outside ASCII ("NBSP" is  *)
(* U+00A0, "FW1" is U+FF11 FULLWIDTH DIGIT ONE, "EUR" is U+20AC, ...).     *)
(***************************************************************************)
EXTENDS Integers, Sequences, FiniteSets, TLC

VARIABLES
  value, call, ret,               \* one call of a numeric-parser function
  name, norm1, norm2, npc,        \* normalize_column_name, applied twice
  columns, keywords, matches, kpc, \* one call of find_columns_with_keywords
  df0, df, converted, tpc,        \* one call of convert_text_columns_to_numbers
  files, request, response, dpc, target, seen, \* the upload folder and one download request
  _scheduler_lock, _scheduler, _scheduler_shutdown_registered, \* the globals of the cleanup scheduler
  spc, calls, hpc, created, registered, starts, startedRunning, \* its callers, the exit hook, and what they did
  now, tmp, deleted,              \* the clock, the upload folder, and what the last run of cleanup_old_files deleted
  ureq, upc, usaved, uresp        \* one request to /upload

parseVars == <<value, call, ret>>

normVars == <<name, norm1, norm2, npc>>

kwVars == <<columns, keywords, matches, kpc>>

tableVars == <<df0, df, converted, tpc>>

downloadVars == <<files, request, response, dpc, target, seen>>

schedVars == <<_scheduler_lock, _scheduler, _scheduler_shutdown_registered, spc, calls, hpc, created, registered, starts, startedRunning>>

folderVars == <<now, tmp, deleted, ureq, upc, usaved, uresp>>

vars == <<parseVars, normVars, kwVars, tableVars, downloadVars, schedVars, folderVars>>

\* what each specification leaves alone
notParse == <<normVars, kwVars, tableVars, downloadVars, schedVars, folderVars>>

notNormalize == <<parseVars, kwVars, tableVars, downloadVars, schedVars, folderVars>>

notKeywords == <<parseVars, normVars, tableVars, downloadVars, schedVars, folderVars>>

notTable == <<parseVars, normVars, kwVars, downloadVars, schedVars, folderVars>>

notDownload == <<parseVars, normVars, kwVars, tableVars, schedVars, folderVars>>

notScheduler == <<parseVars, normVars, kwVars, tableVars, downloadVars, folderVars>>

notFolder == <<parseVars, normVars, kwVars, tableVars, downloadVars, schedVars>>

(***************************************************************************)
(* Bounds of the model.                                                    *)
(***************************************************************************)
MaxLen == 4

(***************************************************************************)
(* str helpers: the Python string methods the code uses.                   *)
(***************************************************************************)
Whitespace == {" ", "NBSP", "TAB"}

Digits == {"0", "1", "2", "3", "4", "5", "6", "7", "8", "9"}

\* s.replace(c, "")
Remove(s, c) == SelectSeq(s, LAMBDA x : x # c)

\* s.replace(a, b) for single characters a and b
Replace(s, a, b) == [i \in DOMAIN s |-> IF s[i] = a THEN b ELSE s[i]]

\* s.count(c)
Count(s, c) == Cardinality({i \in DOMAIN s : s[i] = c})

\* c in s
Contains(s, c) == \E i \in DOMAIN s : s[i] = c

\* s.rfind(c): 1-based here, 0 when c does not occur
RFind(s, c) == IF Contains(s, c) THEN CHOOSE i \in DOMAIN s : s[i] = c /\ \A j \in DOMAIN s : s[j] = c => j <= i ELSE 0

\* s.find(c): 1-based here, 0 when c does not occur
Find(s, c) == IF Contains(s, c) THEN CHOOSE i \in DOMAIN s : s[i] = c /\ \A j \in DOMAIN s : s[j] = c => j >= i ELSE 0

StartsWith(s, c) == Len(s) > 0 /\ s[1] = c

EndsWith(s, c) == Len(s) > 0 /\ s[Len(s)] = c

RECURSIVE LStrip(_)
LStrip(s) == IF Len(s) > 0 /\ s[1] \in Whitespace THEN LStrip(Tail(s)) ELSE s

RECURSIVE RStrip(_)
RStrip(s) == IF Len(s) > 0 /\ s[Len(s)] \in Whitespace THEN RStrip(SubSeq(s, 1, Len(s) - 1)) ELSE s

\* s.strip()
Strip(s) == RStrip(LStrip(s))

\* s.split(c): the sequence of the segments between the occurrences of c
RECURSIVE Split(_, _)
Split(s, c) ==
  IF ~Contains(s, c) THEN <<s>>
  ELSE LET i == Find(s, c)
       IN <<SubSeq(s, 1, i - 1)>> \o Split(SubSeq(s, i + 1, Len(s)), c)

\* "".join(parts)
RECURSIVE Join(_)
Join(parts) == IF parts = <<>> THEN <<>> ELSE Head(parts) \o Join(Tail(parts))

RECURSIVE Pow10(_)
Pow10(k) == IF k = 0 THEN 1 ELSE 10 * Pow10(k - 1)

DigitVal(c) == CHOOSE d \in 0..9 : <<"0", "1", "2", "3", "4", "5", "6", "7", "8", "9">>[d + 1] = c

RECURSIVE NatOf(_)
NatOf(ds) == IF ds = <<>> THEN 0 ELSE 10 * NatOf(SubSeq(ds, 1, Len(ds) - 1)) + DigitVal(ds[Len(ds)])

RECURSIVE DigitsOf(_)
DigitsOf(n) == IF n < 10 THEN <<(<<"0", "1", "2", "3", "4", "5", "6", "7", "8", "9">>)[n + 1]>> ELSE DigitsOf(n \div 10) \o DigitsOf(n % 10)

(***************************************************************************)
(* Python values.  A cell, an argument or a return value is a record with  *)
(* a type tag: None, an int or a float (num), a bool (b), a str (s), or an *)
(* object of another type whose str() is s (a pandas Timestamp).           *)
(* A number is finite (mant / 10^scale, negated when neg), infinite, or    *)
(* nan; pd.NA has kind "NA".                                               *)
(***************************************************************************)
NoNumber == [kind |-> "NA", neg |-> FALSE, mant |-> 0, scale |-> 0]

NaN == [kind |-> "nan", neg |-> FALSE, mant |-> 0, scale |-> 0]

Inf(neg) == [kind |-> "inf", neg |-> neg, mant |-> 0, scale |-> 0]

RECURSIVE Fin(_, _, _)
Fin(neg, mant, scale) ==
  IF scale > 0 /\ mant % 10 = 0 THEN Fin(neg, mant \div 10, scale - 1)
  ELSE [kind |-> "fin", neg |-> neg, mant |-> mant, scale |-> scale]

\* -x on a float
Negate(x) == IF x.kind \in {"fin", "inf"} THEN [x EXCEPT !.neg = ~x.neg] ELSE x

\* x <= 0 and x >= 0 on a float: every comparison with nan is false
LeZero(x) == (x.kind = "fin" /\ (x.neg \/ x.mant = 0)) \/ (x.kind = "inf" /\ x.neg)

GeZero(x) == (x.kind = "fin" /\ (~x.neg \/ x.mant = 0)) \/ (x.kind = "inf" /\ ~x.neg)

\* pd.isna(x) of a returned value: pd.NA and nan are both missing values
IsNA(x) == x.kind \in {"NA", "nan"}

PyNone == [tag |-> "none", s |-> <<>>, num |-> NoNumber, b |-> FALSE]

PyStr(s) == [tag |-> "str", s |-> s, num |-> NoNumber, b |-> FALSE]

PyInt(neg, n) == [tag |-> "int", s |-> <<>>, num |-> Fin(neg, n, 0), b |-> FALSE]

PyFloat(x) == [tag |-> "float", s |-> <<>>, num |-> x, b |-> FALSE]

PyBool(b) == [tag |-> "bool", s |-> <<>>, num |-> NoNumber, b |-> b]

PyOther(s) == [tag |-> "other", s |-> s, num |-> NoNumber, b |-> FALSE]

\* Optional[str]
NoneStr == [isNone |-> TRUE, s |-> <<>>]

SomeStr(s) == [isNone |-> FALSE, s |-> s]

NoRet == [cleaned |-> NoneStr, is_negative |-> FALSE, flag |-> FALSE, num |-> NoNumber]

\* The parts of the state a specification does not use stay at these values.
IdleParse == value = PyNone /\ call = "none" /\ ret = NoRet

IdleNormalize == name = PyNone /\ norm1 = <<>> /\ norm2 = <<>> /\ npc = 0

IdleKeywords == columns = <<>> /\ keywords = <<>> /\ matches = <<>> /\ kpc = "start"

IdleTable == df0 = <<>> /\ df = <<>> /\ converted = <<>> /\ tpc = "start"

NoPath == [inside |-> FALSE, name |-> <<>>]

NoResponse == [status |-> "none", path |-> NoPath]

IdleDownload == files = <<>> /\ request = <<>> /\ response = NoResponse /\ dpc = "start" /\ target = NoPath /\ seen = <<>>

\* app.py line 149: _scheduler = None
NoScheduler == [isNone |-> TRUE, jobs |-> <<>>, running |-> FALSE]

IdleScheduler ==
  /\ _scheduler_lock = 0 /\ _scheduler = NoScheduler /\ _scheduler_shutdown_registered = FALSE
  /\ spc = <<>> /\ calls = <<>> /\ hpc = "idle"
  /\ created = 0 /\ registered = 0 /\ starts = 0 /\ startedRunning = FALSE

IdleFolder ==
  /\ now = 0 /\ tmp = <<>> /\ deleted = {}
  /\ ureq = "none" /\ upc = "start" /\ usaved = FALSE /\ uresp = "none"

RECURSIVE ZeroPad(_, _)
ZeroPad(ds, width) == IF Len(ds) >= width THEN ds ELSE ZeroPad(<<"0">> \o ds, width)

\* str(x) of an int or a float (floats in the range repr() prints without exponent)
NumStr(x, isFloat) ==
  LET sign == IF x.neg THEN <<"-">> ELSE <<>>
      p == Pow10(x.scale)
  IN CASE x.kind = "nan" -> <<"n", "a", "n">>
       [] x.kind = "inf" -> sign \o <<"i", "n", "f">>
       [] OTHER -> sign \o DigitsOf(x.mant \div p)
                   \o (IF ~isFloat THEN <<>>
                       ELSE <<".">> \o (IF x.scale = 0 THEN <<"0">> ELSE ZeroPad(DigitsOf(x.mant % p), x.scale)))

\* str(value)
PyStrOf(v) ==
  CASE v.tag = "none" -> <<"N", "o", "n", "e">>
    [] v.tag = "int" -> NumStr(v.num, FALSE)
    [] v.tag = "float" -> NumStr(v.num, TRUE)
    [] v.tag = "bool" -> IF v.b THEN <<"T", "r", "u", "e">> ELSE <<"F", "a", "l", "s", "e">>
    [] OTHER -> v.s

(***************************************************************************)
(* float(s): the literals Python's float() accepts.                        *)
(***************************************************************************)
AsciiLower(c) ==
  CASE c = "E" -> "e" [] c = "N" -> "n" [] c = "A" -> "a" [] c = "I" -> "i"
    [] c = "F" -> "f" [] c = "T" -> "t" [] c = "Y" -> "y" [] OTHER -> c

\* digitpart: digit (["_"] digit)*
DigitPartOK(g) ==
  /\ Len(g) > 0
  /\ \A i \in DOMAIN g : g[i] \in Digits \cup {"_"}
  /\ g[1] \in Digits /\ g[Len(g)] \in Digits
  /\ \A i \in 1..(Len(g) - 1) : ~(g[i] = "_" /\ g[i + 1] = "_")

\* number: [digitpart] "." digitpart | digitpart ["."]
NumberOK(m) ==
  IF Contains(m, ".")
  THEN LET i == Find(m, ".")
           ip == SubSeq(m, 1, i - 1)
           fp == SubSeq(m, i + 1, Len(m))
       IN \/ fp = <<>> /\ DigitPartOK(ip)
          \/ DigitPartOK(fp) /\ (ip = <<>> \/ DigitPartOK(ip))
  ELSE DigitPartOK(m)

\* exponent: [sign] digitpart
ExponentOK(e) ==
  IF StartsWith(e, "+") \/ StartsWith(e, "-") THEN DigitPartOK(Tail(e)) ELSE DigitPartOK(e)

Unsigned(t) == IF StartsWith(t, "+") \/ StartsWith(t, "-") THEN Tail(t) ELSE t

\* whether float(s) returns (rather than raising ValueError)
FloatOK(s) ==
  LET t == [i \in DOMAIN Strip(s) |-> AsciiLower(Strip(s)[i])]
      u == Unsigned(t)
  IN \/ u \in {<<"i", "n", "f">>, <<"i", "n", "f", "i", "n", "i", "t", "y">>, <<"n", "a", "n">>}
     \/ IF Contains(u, "e")
        THEN LET i == Find(u, "e")
             IN NumberOK(SubSeq(u, 1, i - 1)) /\ ExponentOK(SubSeq(u, i + 1, Len(u)))
        ELSE NumberOK(u)

\* float(s), for s with FloatOK(s)
FloatOf(s) ==
  LET t == [i \in DOMAIN Strip(s) |-> AsciiLower(Strip(s)[i])]
      neg == StartsWith(t, "-")
      u == Unsigned(t)
      hasE == Contains(u, "e")
      m == IF hasE THEN SubSeq(u, 1, Find(u, "e") - 1) ELSE u
      e == IF hasE THEN SubSeq(u, Find(u, "e") + 1, Len(u)) ELSE <<>>
      ip == Remove(IF Contains(m, ".") THEN SubSeq(m, 1, Find(m, ".") - 1) ELSE m, "_")
      fp == Remove(IF Contains(m, ".") THEN SubSeq(m, Find(m, ".") + 1, Len(m)) ELSE <<>>, "_")
      ex == IF hasE THEN (IF StartsWith(e, "-") THEN -1 ELSE 1) * NatOf(Remove(Unsigned(e), "_")) ELSE 0
      mant == NatOf(ip \o fp)
  IN CASE u = <<"n", "a", "n">> -> NaN
       [] u \in {<<"i", "n", "f">>, <<"i", "n", "f", "i", "n", "i", "t", "y">>} -> Inf(neg)
       [] OTHER -> IF ex >= Len(fp) THEN Fin(neg, mant * Pow10(ex - Len(fp)), 0)
                   ELSE Fin(neg, mant, Len(fp) - ex)

(***************************************************************************)
(* src/src/converters.py: the numeric parser.                              *)
(***************************************************************************)
_CURRENCY_SYMBOLS == <<"$", "EUR", "GBP", "YEN", "RUB", "PHP", "INR">>

\* unicodedata.normalize("NFKC", text), character by character: U+00A0 becomes
\* a space, a fullwidth form its ASCII character; ASCII is unchanged.
NFKCChar(c) ==
  CASE c = "NBSP" -> <<" ">>
    [] c = "FW1" -> <<"1">>
    [] c = "FWCOMMA" -> <<",">>
    [] OTHER -> <<c>>

RECURSIVE NFKC(_)
NFKC(s) == IF s = <<>> THEN <<>> ELSE NFKCChar(Head(s)) \o NFKC(Tail(s))

RECURSIVE StripSymbols(_, _)
StripSymbols(cleaned, symbols) ==
  IF symbols = <<>> THEN cleaned ELSE StripSymbols(Remove(cleaned, Head(symbols)), Tail(symbols))

_strip_currency_symbols(text) == StripSymbols(text, _CURRENCY_SYMBOLS)

_coerce_to_string(v) ==
  CASE v.tag = "none" -> NoneStr
    [] v.tag \in {"int", "float"} -> IF v.num.kind = "nan" THEN NoneStr ELSE SomeStr(PyStrOf(v))
    [] OTHER -> LET text == Strip(PyStrOf(v)) IN IF text = <<>> THEN NoneStr ELSE SomeStr(text)

\* lines 46-48: compatibility normalisation, no-break spaces, currency symbols
PreClean(text) == _strip_currency_symbols(Remove(NFKC(text), "NBSP"))

\* lines 50-64: sign detection
StripSign(cleaned0) ==
  LET paren == StartsWith(cleaned0, "(") /\ EndsWith(cleaned0, ")")
      c1 == IF paren THEN SubSeq(cleaned0, 2, Len(cleaned0) - 1) ELSE cleaned0
      trail == EndsWith(c1, "-")
      c2 == IF trail THEN SubSeq(c1, 1, Len(c1) - 1) ELSE c1
      lead == StartsWith(c2, "-")
      c3 == IF lead THEN Tail(c2) ELSE c2
      c4 == IF StartsWith(c3, "+") THEN Tail(c3) ELSE c3
  IN [cleaned |-> c4, is_negative |-> paren \/ trail \/ lead]

\* ResolveSeparators with find() in place of rfind()
ResolveSeparators_find(cleaned) ==
  IF Contains(cleaned, ".") /\ Contains(cleaned, ",")
  THEN IF Find(cleaned, ".") > Find(cleaned, ",")
       THEN Remove(cleaned, ",")
       ELSE Replace(Remove(cleaned, "."), ",", ".")
  ELSE IF Count(cleaned, ",") = 1 /\ Len(Split(cleaned, ",")[2]) <= 2
       THEN Replace(cleaned, ",", ".")
       ELSE Remove(cleaned, ",")

\* ResolveSeparators with the comma always taken as the decimal point
ResolveSeparators_nolen(cleaned) ==
  IF Contains(cleaned, ".") /\ Contains(cleaned, ",")
  THEN IF RFind(cleaned, ".") > RFind(cleaned, ",")
       THEN Remove(cleaned, ",")
       ELSE Replace(Remove(cleaned, "."), ",", ".")
  ELSE IF Count(cleaned, ",") = 1
       THEN Replace(cleaned, ",", ".")
       ELSE Remove(cleaned, ",")

\* lines 68-79: which of '.' and ',' is the decimal point
ResolveSeparators(cleaned) ==
  IF Contains(cleaned, ".") /\ Contains(cleaned, ",")
  THEN IF RFind(cleaned, ".") > RFind(cleaned, ",")
       THEN Remove(cleaned, ",")
       ELSE Replace(Remove(cleaned, "."), ",", ".")
  ELSE IF Count(cleaned, ",") = 1 /\ Len(Split(cleaned, ",")[2]) <= 2
       THEN Replace(cleaned, ",", ".")
       ELSE Remove(cleaned, ",")

\* lines 81-83: only the last '.' is kept
CollapseDots(cleaned) ==
  IF Count(cleaned, ".") > 1
  THEN LET parts == Split(cleaned, ".")
       IN Join(SubSeq(parts, 1, Len(parts) - 1)) \o <<".">> \o parts[Len(parts)]
  ELSE cleaned

\* lines 46-66: the string the separator rules are applied to
BeforeSeparators(text) == Remove(StripSign(PreClean(text)).cleaned, " ")

\* lines 46-85: the string handed to float()
CleanText(text) == Remove(CollapseDots(ResolveSeparators(BeforeSeparators(text))), "'")

_parse_numeric_text(v) ==
  LET text == _coerce_to_string(v)
  IN IF text.isNone THEN [cleaned |-> NoneStr, is_negative |-> FALSE]
     ELSE IF ~FloatOK(CleanText(text.s)) THEN [cleaned |-> NoneStr, is_negative |-> FALSE]
     ELSE [cleaned |-> SomeStr(CleanText(text.s)), is_negative |-> StripSign(PreClean(text.s)).is_negative]

is_numeric_like(v) == ~_parse_numeric_text(v).cleaned.isNone

convert_numeric_text(v) ==
  CASE v.tag = "none" -> NoNumber
    [] v.tag \in {"int", "float"} -> IF v.tag = "float" /\ v.num.kind = "nan" THEN NoNumber ELSE v.num
    [] OTHER -> LET p == _parse_numeric_text(v)
                IN IF p.cleaned.isNone THEN NoNumber
                   ELSE IF ~FloatOK(p.cleaned.s) THEN NoNumber
                   ELSE IF p.is_negative THEN Negate(FloatOf(p.cleaned.s)) ELSE FloatOf(p.cleaned.s)

(***************************************************************************)
(* The numeric parser, called on one value: the value is drawn in the      *)
(* initial state, and each action is one call of a public function on it.  *)
(***************************************************************************)
ParseAlphabet == {"1", "2", ".", ",", "-", "+", "(", ")", " ", "n", "a"}

\* every text of n characters of the alphabet
TextsOfLen(n) == [1..n -> ParseAlphabet]

ExampleTexts ==
  { <<"1", ".", "2", "3", "4", ",", "5", "6">>,
    <<"1", ",", "2", "3", "4", ".", "5", "6">>,
    <<"(", "1", ".", "2", "3", "4", ",", "5", "6", ")">>,
    <<"EUR", "1", ".", "2", "3", "4", ",", "5", "6">>,
    <<"$", " ", "1", ",", "2", "3", "4", ".", "5", "6">>,
    <<"1", ".", "2", "3", "4", ".", "5", "6", "7", ",", "8">>,
    <<"1", ",", "2", "3", "4", ",", "5", "6", "7", ".", "8">>,
    <<"1", ".", "2", ",", "3", ".", "4">>,
    <<"1", ",", "2", "3">>,
    <<"1", ",", "2", "3", "4">>,
    <<"1", ",", "2", ",", "3">>,
    <<"1", ",", "2", "3", " ", "EUR">>,
    <<"1", ",", "2", "3", "-">>,
    <<"(", "1", ",", "2", "3", ")">>,
    <<"1", ",", "2", "'", "3">>,
    <<"1", "'", "2", "3", "4", ".", "5">>,
    <<"0", "0", "0", "1", "2", "3">>,
    <<" ", "4", "5", "6", " ">>,
    <<"1", "NBSP", "2", "3", "4", ",", "5">>,
    <<"FW1", "FWCOMMA", "5">>,
    <<"1", "e", "2">>,
    <<"1", "_", "0">>,
    <<"i", "n", "f">>,
    <<"N", "a", "N">>,
    <<"(", "n", "a", "n", ")">>,
    <<"n", "o", " ", "e", "s", " ", "n", "u", "m", "e", "r", "o">>,
    <<"TAB">> }

NonTextValues ==
  { PyNone, PyBool(TRUE), PyBool(FALSE),
    PyInt(FALSE, 0), PyInt(FALSE, 7), PyInt(TRUE, 3),
    PyFloat(Fin(FALSE, 15, 1)), PyFloat(Fin(TRUE, 25, 2)), PyFloat(Fin(FALSE, 4, 0)),
    PyFloat(NaN), PyFloat(Inf(FALSE)), PyFloat(Inf(TRUE)),
    PyOther(<<"2", "0", "2", "4", "-", "0", "1", "-", "0", "2", " ", "0", "0", ":", "0", "0", ":", "0", "0">>) }

InitParse ==
  /\ \/ \E n \in 0..MaxLen : \E s \in TextsOfLen(n) : value = PyStr(s)
     \/ \E s \in ExampleTexts : value = PyStr(s)
     \/ value \in NonTextValues
  /\ call = "none" /\ ret = NoRet
  /\ IdleNormalize /\ IdleKeywords /\ IdleTable /\ IdleDownload /\ IdleScheduler /\ IdleFolder

CallParseNumericText ==
  /\ call = "none"
  /\ call' = "_parse_numeric_text"
  /\ ret' = [NoRet EXCEPT !.cleaned = _parse_numeric_text(value).cleaned,
                          !.is_negative = _parse_numeric_text(value).is_negative]
  /\ UNCHANGED <<value, notParse>>

CallIsNumericLike ==
  /\ call = "none"
  /\ call' = "is_numeric_like"
  /\ ret' = [NoRet EXCEPT !.flag = is_numeric_like(value)]
  /\ UNCHANGED <<value, notParse>>

CallConvertNumericText ==
  /\ call = "none"
  /\ call' = "convert_numeric_text"
  /\ ret' = [NoRet EXCEPT !.num = convert_numeric_text(value)]
  /\ UNCHANGED <<value, notParse>>

NextParse == CallParseNumericText \/ CallIsNumericLike \/ CallConvertNumericText

SpecParse == InitParse /\ [][NextParse]_vars

(***************************************************************************)
(* Claims about the numeric parser (checked under SpecParse).              *)
(***************************************************************************)
Parsed == call = "_parse_numeric_text" /\ value.tag = "str"

Accepted == Parsed /\ ~ret.cleaned.isNone

\* the working string of a text value when the separator rules are reached
Working == BeforeSeparators(Strip(value.s))

\* x without any grouping character
NoGrouping(x) == SelectSeq(x, LAMBDA c : c \notin {".", ",", "'"})

LastSeparator(w) == IF RFind(w, ".") > RFind(w, ",") THEN RFind(w, ".") ELSE RFind(w, ",")

\* C4: for every text value that holds both '.' and ',' and that the parser
\* accepts, the cleaned string has exactly one '.', no ',', and is the text
\* before the last separator without its separators, a '.', and the text
\* after the last separator.
C4_RightmostSeparator ==
  (Accepted /\ Contains(value.s, ".") /\ Contains(value.s, ","))
    => LET k == LastSeparator(Working)
       IN /\ Count(ret.cleaned.s, ".") = 1
          /\ ~Contains(ret.cleaned.s, ",")
          /\ ret.cleaned.s = NoGrouping(SubSeq(Working, 1, k - 1)) \o <<".">>
                               \o NoGrouping(SubSeq(Working, k + 1, Len(Working)))

C4_Witness ==
  /\ Accepted
  /\ value.s = <<"1", ".", "2", ",", "3", ".", "4">>
  /\ ret.cleaned.s = <<"1", "2", "3", ".", "4">>

\* whether a string with one comma has at most 2 characters after it
ShortTail(x) == Count(x, ",") = 1 /\ Len(x) - Find(x, ",") <= 2

CommaOnly == Accepted /\ Contains(value.s, ",") /\ ~Contains(value.s, ".")

\* C5 as stated: for every text value with ',' and no '.', the comma is the
\* decimal point if and only if the text value has exactly one comma and at
\* most 2 characters follow it; otherwise every comma is removed.
C5_AsStated ==
  CommaOnly => IF ShortTail(Strip(value.s))
               THEN Count(ret.cleaned.s, ".") = 1
               ELSE ~Contains(ret.cleaned.s, ".")

\* C5 amended: for every text value with ',' and no '.', the comma is the
\* decimal point if and only if the string left once currency symbols, sign
\* markers and spaces are stripped has exactly one comma and at most 2
\* characters after it; otherwise every comma is removed.
C5_CommaOnly ==
  CommaOnly => LET k == Find(Working, ",")
               IN IF ShortTail(Working)
                  THEN ret.cleaned.s = NoGrouping(SubSeq(Working, 1, k - 1)) \o <<".">>
                                         \o NoGrouping(SubSeq(Working, k + 1, Len(Working)))
                  ELSE ret.cleaned.s = NoGrouping(Working)

C5_Witness ==
  /\ CommaOnly
  /\ value.s = <<"1", ",", "2", "3", "-">>
  /\ ret.cleaned.s = <<"1", ".", "2", "3">>
  /\ ret.is_negative

SignMarkers == {"-", "+", "(", ")"}

\* C6: for every accepted input the cleaned string starts and ends with no
\* sign marker, and the value convert_numeric_text returns is <= 0 when
\* is_negative is true and >= 0 when it is false.
C6_SignHandling ==
  /\ Accepted => ret.cleaned.s[1] \notin SignMarkers /\ ret.cleaned.s[Len(ret.cleaned.s)] \notin SignMarkers
  /\ (call = "convert_numeric_text" /\ value.tag = "str" /\ ret.num.kind \in {"fin", "inf"})
       => IF _parse_numeric_text(value).is_negative THEN LeZero(ret.num) ELSE GeZero(ret.num)

\* C8: None gives null, a number that is not nan is returned as it is, nan
\* gives null, a bool gives null, and the returned value is not null exactly
\* when is_numeric_like holds of the input.
C8_NonTextAndNullness ==
  call = "convert_numeric_text"
    => /\ value.tag = "none" => ret.num = NoNumber
       /\ (value.tag \in {"int", "float"} /\ value.num.kind # "nan") => ret.num = value.num
       /\ (value.tag = "float" /\ value.num.kind = "nan") => ret.num = NoNumber
       /\ value.tag = "bool" => ret.num = NoNumber
       /\ ~IsNA(ret.num) <=> is_numeric_like(value)

(***************************************************************************)
(* src/src/converters.py: the text normaliser.  Characters outside ASCII   *)
(* are tokens: "E_ACUTE_UP" U+00C9, "e_acute" U+00E9, "o_acute" U+00F3,   *)
(* "I_ACUTE_UP" U+00CD, "i_acute" U+00ED,                                  *)
(* "ACUTE" U+0301                                                          *)
(* COMBINING ACUTE ACCENT, "TM" U+2122 TRADE MARK SIGN, "DIAERESIS" U+00A8,*)
(* "COMB_DIAERESIS" U+0308.                                                *)
(***************************************************************************)
UpperLetters == <<"A", "B", "C", "D", "E", "F", "G", "H", "I", "J", "K", "L", "M", "N", "O", "P", "Q", "R", "S", "T", "U", "V", "W", "X", "Y", "Z">>

LowerLetters == <<"a", "b", "c", "d", "e", "f", "g", "h", "i", "j", "k", "l", "m", "n", "o", "p", "q", "r", "s", "t", "u", "v", "w", "x", "y", "z">>

\* c.lower()
LowerChar(c) ==
  IF \E i \in DOMAIN UpperLetters : UpperLetters[i] = c
  THEN <<LowerLetters[CHOOSE i \in DOMAIN UpperLetters : UpperLetters[i] = c]>>
  ELSE IF c = "E_ACUTE_UP" THEN <<"e_acute">>
  ELSE IF c = "I_ACUTE_UP" THEN <<"i_acute">> ELSE <<c>>

\* unicodedata.normalize("NFKD", c): the compatibility decomposition
NFKDChar(c) ==
  CASE c = "e_acute" -> <<"e", "ACUTE">>
    [] c = "o_acute" -> <<"o", "ACUTE">>
    [] c = "i_acute" -> <<"i", "ACUTE">>
    [] c = "I_ACUTE_UP" -> <<"I", "ACUTE">>
    [] c = "E_ACUTE_UP" -> <<"E", "ACUTE">>
    [] c = "TM" -> <<"T", "M">>
    [] c = "DIAERESIS" -> <<" ", "COMB_DIAERESIS">>
    [] c = "NBSP" -> <<" ">>
    [] OTHER -> <<c>>

RECURSIVE Lower(_)
Lower(s) == IF s = <<>> THEN <<>> ELSE LowerChar(Head(s)) \o Lower(Tail(s))

RECURSIVE NFKD(_)
NFKD(s) == IF s = <<>> THEN <<>> ELSE NFKDChar(Head(s)) \o NFKD(Tail(s))

\* unicodedata.combining(c) != 0
Combining(c) == c \in {"ACUTE", "COMB_DIAERESIS"}

normalize_column_name(v) ==
  IF v.tag # "str" THEN <<>>
  ELSE LET normalized == NFKD(Lower(Strip(v.s)))
       IN SelectSeq(normalized, LAMBDA char : ~Combining(char))

(***************************************************************************)
(* normalize_column_name applied to a name, then to its own result.        *)
(***************************************************************************)
MaxNameLen == 2

NameAlphabet == {"I", "d", " ", "e_acute", "E_ACUTE_UP", "ACUTE", "TM", "DIAERESIS"}

InitNormalize ==
  /\ \/ \E n \in 0..MaxNameLen : \E s \in [1..n -> NameAlphabet] : name = PyStr(s)
     \/ name \in {PyNone, PyInt(FALSE, 7)}
  /\ norm1 = <<>> /\ norm2 = <<>> /\ npc = 0
  /\ IdleParse /\ IdleKeywords /\ IdleTable /\ IdleDownload /\ IdleScheduler /\ IdleFolder

NormalizeOnce ==
  /\ npc = 0
  /\ norm1' = normalize_column_name(name)
  /\ npc' = 1
  /\ UNCHANGED <<name, norm2, notNormalize>>

NormalizeAgain ==
  /\ npc = 1
  /\ norm2' = normalize_column_name(PyStr(norm1))
  /\ npc' = 2
  /\ UNCHANGED <<name, norm1, notNormalize>>

NextNormalize == NormalizeOnce \/ NormalizeAgain

SpecNormalize == InitNormalize /\ [][NextNormalize]_vars

\* C7: normalize_column_name is idempotent: normalising a normalised name
\* gives the same name.
C7_Idempotent == npc = 2 => norm2 = norm1

(***************************************************************************)
(* src/src/converters.py: find_columns_with_keywords.                      *)
(***************************************************************************)
\* needle in haystack
IsSubstring(needle, haystack) ==
  \E i \in 0..(Len(haystack) - Len(needle)) : SubSeq(haystack, i + 1, i + Len(needle)) = needle

\* KeywordHits without the test that the keyword is not empty
KeywordHits_noempty(keyword, normalized_column) == IsSubstring(keyword, normalized_column)

\* keyword and keyword in normalized_column
KeywordHits(keyword, normalized_column) == keyword # <<>> /\ IsSubstring(keyword, normalized_column)

\* lines 171-173: any(...) over the normalized keywords
AnyKeywordHits(normalized_keywords, normalized_column) ==
  \E k \in DOMAIN normalized_keywords : KeywordHits(normalized_keywords[k], normalized_column)

\* lines 169-174: the loop over the columns
RECURSIVE CollectMatches(_, _)
CollectMatches(cols, normalized_keywords) ==
  IF cols = <<>> THEN <<>>
  ELSE (IF AnyKeywordHits(normalized_keywords, normalize_column_name(Head(cols))) THEN <<Head(cols)>> ELSE <<>>)
       \o CollectMatches(Tail(cols), normalized_keywords)

find_columns_with_keywords(cols, kws) ==
  CollectMatches(cols, [k \in DOMAIN kws |-> normalize_column_name(kws[k])])

(***************************************************************************)
(* One call of find_columns_with_keywords on drawn columns and keywords.   *)
(***************************************************************************)
MaxColumns == 2

MaxKeywords == 2

ColumnLabels ==
  { PyStr(<<"F", "e", "c", "h", "a">>),
    PyStr(<<" ", "I", "D", " ">>),
    PyStr(<<"L", "i", "b", "e", "r", "a", "c", "i", "o_acute", "n">>),
    PyStr(<<"m", "o", "n", "t", "o">>),
    PyInt(FALSE, 7) }

KeywordValues ==
  { PyStr(<<"f", "e", "c", "h", "a">>),
    PyStr(<<"A">>),
    PyStr(<<"l", "i", "b", "e", "r", "a", "c", "i", "o", "n">>),
    PyStr(<<"i", "d">>),
    PyStr(<<>>),
    PyStr(<<" ">>),
    PyStr(<<"ACUTE">>),
    PyNone }

InitKeywords ==
  /\ \E n \in 0..MaxColumns : columns \in [1..n -> ColumnLabels]
  /\ \E n \in 0..MaxKeywords : keywords \in [1..n -> KeywordValues]
  /\ matches = <<>>
  /\ kpc = "start"
  /\ IdleParse /\ IdleNormalize /\ IdleTable /\ IdleDownload /\ IdleScheduler /\ IdleFolder

CallFindColumns ==
  /\ kpc = "start"
  /\ matches' = find_columns_with_keywords(columns, keywords)
  /\ kpc' = "done"
  /\ UNCHANGED <<columns, keywords, notKeywords>>

NextKeywords == CallFindColumns

SpecKeywords == InitKeywords /\ [][NextKeywords]_vars

\* whether column i matches: some keyword whose normalized form is not
\* empty occurs in the column's normalized name
ColumnMatches(i) ==
  \E k \in DOMAIN keywords :
    /\ normalize_column_name(keywords[k]) # <<>>
    /\ IsSubstring(normalize_column_name(keywords[k]), normalize_column_name(columns[i]))

\* C9: the result is the subsequence of the columns at exactly the matching
\* positions, in the original order, each position once.
C9_KeywordMatches ==
  kpc = "done" =>
    \E pos \in [DOMAIN matches -> DOMAIN columns] :
      /\ \A a, b \in DOMAIN matches : a < b => pos[a] < pos[b]
      /\ \A a \in DOMAIN matches : matches[a] = columns[pos[a]]
      /\ {pos[a] : a \in DOMAIN matches} = {i \in DOMAIN columns : ColumnMatches(i)}

\* a column hit by two keywords is returned once; an empty keyword hits nothing
C9_Witness ==
  /\ kpc = "done"
  /\ columns = <<PyStr(<<"m", "o", "n", "t", "o">>), PyStr(<<"F", "e", "c", "h", "a">>)>>
  /\ keywords = <<PyStr(<<"f", "e", "c", "h", "a">>), PyStr(<<"A">>)>>
  /\ matches = <<PyStr(<<"F", "e", "c", "h", "a">>)>>

(***************************************************************************)
(* src/src/converters.py: the table converter.  A table is the sequence of *)
(* its columns; a column has a label, a dtype and one cell per row.        *)
(***************************************************************************)
_ID_KEYWORDS == <<<<"i", "d">>>>

_should_force_numeric(norm_column_name) ==
  \E k \in DOMAIN _ID_KEYWORDS : IsSubstring(_ID_KEYWORDS[k], norm_column_name)

\* pd.api.types.is_numeric_dtype: integer, float and bool dtypes
is_numeric_dtype(dtype) == dtype \in {"int64", "float64", "bool"}

\* series.dtype == object or pd.api.types.is_string_dtype(series)
IsTextDtype(dtype) == dtype \in {"object", "string"}

\* what dropna() drops: None, nan, NaT
IsMissing(cell) ==
  \/ cell.tag = "none"
  \/ cell.tag = "float" /\ cell.num.kind = "nan"
  \/ cell.tag = "other" /\ cell.s = <<"N", "a", "T">>

\* The cells a table of the model holds.
ObjectCells ==
  { PyNone, PyStr(<<" ">>), PyStr(<<"1", ",", "5">>), PyStr(<<"x">>), PyStr(<<"n", "a", "n">>), PyInt(FALSE, 7) }

FloatCells == {PyFloat(Fin(FALSE, 15, 1)), PyFloat(NaN)}

DatetimeCells == {PyOther(<<"2", "0", "2", "4", "-", "0", "1", "-", "0", "2", " ", "0", "0", ":", "0", "0", ":", "0", "0">>)}

Cells == ObjectCells \cup FloatCells \cup DatetimeCells

\* line 150: non_null.map(_coerce_to_string), cell by cell
CoercedCell == [c \in Cells |-> _coerce_to_string(c)]

\* line 154: cleaned_non_null.map(is_numeric_like), on the display string of a cell
NumericLikeCell == [c \in Cells |-> ~_coerce_to_string(c).isNone /\ is_numeric_like(PyStr(_coerce_to_string(c).s))]

\* pd.to_numeric(..., errors="coerce") of one mapped cell: pd.NA becomes nan
ToNumeric(x) == PyFloat(IF x.kind = "NA" THEN NaN ELSE x)

\* lines 155-156: series.map(convert_numeric_text) and pd.to_numeric, cell by cell
NumericCell == [c \in Cells |-> ToNumeric(convert_numeric_text(c))]

\* lines 146 and 150: the cells that have a display string
CleanedNonNull(cells) ==
  LET non_null == SelectSeq(cells, LAMBDA c : ~IsMissing(c))
  IN SelectSeq(non_null, LAMBDA c : ~CoercedCell[c].isNone)

\* ShouldConvert with any() in place of all()
ShouldConvert_any(col) ==
  LET force_numeric == _should_force_numeric(normalize_column_name(col.label))
      non_null == SelectSeq(col.cells, LAMBDA c : ~IsMissing(c))
      cleaned_non_null == CleanedNonNull(col.cells)
  IN IF is_numeric_dtype(col.dtype) THEN FALSE
     ELSE IF ~(force_numeric \/ IsTextDtype(col.dtype)) THEN FALSE
     ELSE IF non_null = <<>> /\ ~force_numeric THEN FALSE
     ELSE IF cleaned_non_null = <<>> /\ ~force_numeric THEN FALSE
     ELSE force_numeric \/ \E i \in DOMAIN cleaned_non_null : NumericLikeCell[cleaned_non_null[i]]

\* ShouldConvert with the gate applied to force-numeric columns too
ShouldConvert_noforce(col) ==
  LET force_numeric == _should_force_numeric(normalize_column_name(col.label))
      non_null == SelectSeq(col.cells, LAMBDA c : ~IsMissing(c))
      cleaned_non_null == CleanedNonNull(col.cells)
  IN IF is_numeric_dtype(col.dtype) THEN FALSE
     ELSE IF ~(force_numeric \/ IsTextDtype(col.dtype)) THEN FALSE
     ELSE IF non_null = <<>> /\ ~force_numeric THEN FALSE
     ELSE IF cleaned_non_null = <<>> /\ ~force_numeric THEN FALSE
     ELSE \A i \in DOMAIN cleaned_non_null : NumericLikeCell[cleaned_non_null[i]]

\* lines 133-154: whether the column is converted
ShouldConvert(col) ==
  LET force_numeric == _should_force_numeric(normalize_column_name(col.label))
      non_null == SelectSeq(col.cells, LAMBDA c : ~IsMissing(c))
      cleaned_non_null == CleanedNonNull(col.cells)
  IN IF is_numeric_dtype(col.dtype) THEN FALSE
     ELSE IF ~(force_numeric \/ IsTextDtype(col.dtype)) THEN FALSE
     ELSE IF non_null = <<>> /\ ~force_numeric THEN FALSE
     ELSE IF cleaned_non_null = <<>> /\ ~force_numeric THEN FALSE
     ELSE force_numeric \/ \A i \in DOMAIN cleaned_non_null : NumericLikeCell[cleaned_non_null[i]]

\* lines 155-156: the column after conversion
ConvertColumn(col) ==
  [col EXCEPT !.cells = [i \in DOMAIN col.cells |-> NumericCell[col.cells[i]]],
              !.dtype = "float64"]

\* the loop with the label appended for every text column it looks at
RECURSIVE ConvertFrom_report(_, _, _)
ConvertFrom_report(table, report, i) ==
  IF i > Len(table) THEN [df |-> table, converted_columns |-> report]
  ELSE IF ShouldConvert(table[i])
       THEN ConvertFrom_report([table EXCEPT ![i] = ConvertColumn(table[i])], Append(report, table[i].label), i + 1)
       ELSE ConvertFrom_report(table, IF IsTextDtype(table[i].dtype) THEN Append(report, table[i].label) ELSE report, i + 1)

\* lines 131-157: the loop, from column i on
RECURSIVE ConvertFrom(_, _, _)
ConvertFrom(table, report, i) ==
  IF i > Len(table) THEN [df |-> table, converted_columns |-> report]
  ELSE IF ShouldConvert(table[i])
       THEN ConvertFrom([table EXCEPT ![i] = ConvertColumn(table[i])], Append(report, table[i].label), i + 1)
       ELSE ConvertFrom(table, report, i + 1)

convert_text_columns_to_numbers(table) == ConvertFrom(table, <<>>, 1)

(***************************************************************************)
(* One call of convert_text_columns_to_numbers on a drawn table.  The      *)
(* labels of a table are distinct, as pd.read_excel makes them.            *)
(***************************************************************************)
NumRows == 2

TableLabels ==
  { PyStr(<<"O", "p", " ", "I_ACUTE_UP", "D">>),
    PyStr(<<"m", "o", "n", "t", "o">>) }

ColumnsOf(label) ==
  {[label |-> label, dtype |-> "object", cells |-> c] : c \in [1..NumRows -> ObjectCells]}
    \cup {[label |-> label, dtype |-> "float64", cells |-> c] : c \in [1..NumRows -> FloatCells]}
    \cup {[label |-> label, dtype |-> "datetime64", cells |-> c] : c \in [1..NumRows -> DatetimeCells]}

InitTable ==
  /\ \E la, lb \in TableLabels :
       /\ la # lb
       /\ \E a \in ColumnsOf(la), b \in ColumnsOf(lb) : df0 = <<a, b>> /\ df = <<a, b>>
  /\ converted = <<>> /\ tpc = "start"
  /\ IdleParse /\ IdleNormalize /\ IdleKeywords /\ IdleDownload /\ IdleScheduler /\ IdleFolder

CallConvertTextColumns ==
  /\ tpc = "start"
  /\ LET result == convert_text_columns_to_numbers(df)
     IN df' = result.df /\ converted' = result.converted_columns
  /\ tpc' = "done"
  /\ UNCHANGED <<df0, notTable>>

NextTable == CallConvertTextColumns

Spec == InitTable /\ [][NextTable]_vars

(***************************************************************************)
(* Claims about the table converter (checked under Spec).                  *)
(***************************************************************************)
Done == tpc = "done"

\* whether column i of the input is a force-numeric column
Forced(i) == IsSubstring(<<"i", "d">>, normalize_column_name(df0[i].label))

\* is_numeric_like of a cell of the model
NumericLikeValue == [c \in Cells |-> is_numeric_like(c)]

\* whether a cell has a display string
HasDisplayString == [c \in Cells |-> ~_coerce_to_string(c).isNone]

\* the labels of the report as a set
Reported == {converted[k] : k \in DOMAIN converted}

\* whether column i of the input has a cell with a display string that is not numeric-like
HasNonNumericCell(i) == \E r \in DOMAIN df0[i].cells : HasDisplayString[df0[i].cells[r]] /\ ~NumericLikeValue[df0[i].cells[r]]

\* C1: a column whose normalized name does not contain "id" and that holds
\* a non-absent cell that is not numeric-like is left as it is (cells and
\* dtype) and is not in the report.
C1_AllOrNothing ==
  Done => \A i \in DOMAIN df0 :
            (~Forced(i) /\ HasNonNumericCell(i)) => df[i] = df0[i] /\ df0[i].label \notin Reported

C1_Witness ==
  /\ Done
  /\ df0[1].label = PyStr(<<"m", "o", "n", "t", "o">>)
  /\ df0[1].dtype = "object"
  /\ df0[1].cells = <<PyStr(<<"1", ",", "5">>), PyStr(<<"x">>)>>
  /\ df[1] = df0[1]
  /\ converted = <<df0[2].label>>
  /\ df[2].dtype = "float64" /\ df0[2].dtype = "object"

\* the value a converted cell holds: convert_numeric_text of the cell, nan for null
ExpectedCell(c) == IF convert_numeric_text(c).kind = "NA" THEN PyFloat(NaN) ELSE PyFloat(convert_numeric_text(c))

ExpectedCells == [c \in Cells |-> ExpectedCell(c)]

\* C2: a column that is not of numeric dtype and whose normalized name
\* contains "id" is converted whatever it holds: every cell becomes
\* convert_numeric_text of the cell, null when the cell does not parse, and
\* the label is in the report.
C2_ForcedId ==
  Done => \A i \in DOMAIN df0 :
            (Forced(i) /\ df0[i].dtype \notin {"int64", "float64", "bool"})
              => /\ df0[i].label \in Reported
                 /\ \A r \in DOMAIN df0[i].cells :
                      /\ df[i].cells[r] = ExpectedCells[df0[i].cells[r]]
                      /\ ~NumericLikeValue[df0[i].cells[r]] => df[i].cells[r] = PyFloat(NaN)

C2_Witness ==
  /\ Done
  /\ Forced(1)
  /\ df0[1].dtype = "object"
  /\ df0[1].cells = <<PyStr(<<"x">>), PyStr(<<"1", ",", "5">>)>>
  /\ df[1].cells = <<PyFloat(NaN), PyFloat(Fin(FALSE, 15, 1))>>
  /\ converted[1] = df0[1].label

\* C3: the report is the labels of exactly the replaced columns, in table
\* order, each once; every other column is unchanged; the labels, their
\* order and the number of rows are unchanged.
C3_ReportAndFrame ==
  Done =>
    /\ Len(df) = Len(df0)
    /\ \A i \in DOMAIN df0 : df[i].label = df0[i].label /\ Len(df[i].cells) = Len(df0[i].cells)
    /\ \E pos \in [DOMAIN converted -> DOMAIN df0] :
         /\ \A a, b \in DOMAIN converted : a < b => pos[a] < pos[b]
         /\ \A a \in DOMAIN converted : converted[a] = df0[pos[a]].label
         /\ {pos[a] : a \in DOMAIN converted} = {i \in DOMAIN df0 : df[i] # df0[i]}

C3_Witness ==
  /\ Done
  /\ Len(converted) = 2
  /\ converted = <<df0[1].label, df0[2].label>>
  /\ ~Forced(1) /\ Forced(2)

\* whether a cell of a converted column holds a null
IsNullCell(c) == c.tag = "float" /\ c.num.kind = "nan"

\* C11: in a converted column whose normalized name does not contain "id",
\* every cell that had a display string before the call holds a non-null
\* number after it, so the only null cells are those that were absent.
C11_NoValueLost ==
  Done => \A i \in DOMAIN df0 :
            (~Forced(i) /\ df0[i].label \in Reported)
              => \A r \in DOMAIN df0[i].cells :
                   HasDisplayString[df0[i].cells[r]] => ~IsNullCell(df[i].cells[r])

(***************************************************************************)
(* src/src/app.py: download_file.  The upload folder maps an entry name to *)
(* what is there: nothing, a regular file, a directory, or a symbolic link *)
(* (to a file outside the folder, to the other entry, or to nothing).      *)
(***************************************************************************)
\* str.encode("ascii", "ignore"): the characters that are kept
IsAscii(c) == c \notin {"e_acute", "E_ACUTE_UP", "o_acute", "i_acute", "I_ACUTE_UP", "ACUTE", "COMB_DIAERESIS", "DIAERESIS", "TM", "NBSP"}

\* the characters _filename_ascii_strip_re keeps: [A-Za-z0-9_.-]
IsFilenameChar(c) ==
  \/ c \in Digits \cup {"_", ".", "-"}
  \/ \E i \in DOMAIN UpperLetters : UpperLetters[i] = c \/ LowerLetters[i] = c

\* s.split(): the words between runs of whitespace
RECURSIVE Words(_)
Words(s) ==
  LET t == LStrip(s)
  IN IF t = <<>> THEN <<>>
     ELSE IF ~Contains(t, " ") THEN <<t>>
     ELSE <<SubSeq(t, 1, Find(t, " ") - 1)>> \o Words(SubSeq(t, Find(t, " "), Len(t)))

\* "_".join(words)
RECURSIVE JoinUnderscore(_)
JoinUnderscore(words) ==
  IF words = <<>> THEN <<>>
  ELSE IF Len(words) = 1 THEN words[1]
  ELSE words[1] \o <<"_">> \o JoinUnderscore(Tail(words))

\* s.strip("._")
RECURSIVE StripDots(_)
StripDots(s) ==
  IF Len(s) > 0 /\ s[1] \in {".", "_"} THEN StripDots(Tail(s))
  ELSE IF Len(s) > 0 /\ s[Len(s)] \in {".", "_"} THEN StripDots(SubSeq(s, 1, Len(s) - 1))
  ELSE s

\* werkzeug.utils.secure_filename on a POSIX host (os.sep is "/", no altsep)
secure_filename(filename) ==
  LET ascii == SelectSeq(NFKD(filename), IsAscii)
      spaced == Replace(ascii, "/", " ")
      joined == JoinUnderscore(Words(spaced))
  IN StripDots(SelectSeq(joined, IsFilenameChar))

Missing == [kind |-> "missing", to |-> "none"]

RegularFile == [kind |-> "file", to |-> "none"]

Directory == [kind |-> "dir", to |-> "none"]

Symlink(to) == [kind |-> "symlink", to |-> to]

Entries == {Missing, RegularFile, Directory, Symlink("outside_file"), Symlink("sibling"), Symlink("nowhere")}

EntryA == <<"a">>

EntryB == <<"a", "_", "a">>

EntryNames == {EntryA, EntryB}

Sibling(n) == IF n = EntryA THEN EntryB ELSE EntryA

EntryAt(fs, n) == IF n \in EntryNames THEN fs[n] ELSE Missing

\* Path.resolve(strict=True) and is_file() of upload_root / n: the error raised,
\* or the resolved path and whether it is a regular file
Resolve(fs, n) ==
  LET e == EntryAt(fs, n)
      found(inside, nm, isfile) == [error |-> "none", path |-> [inside |-> inside, name |-> nm], isfile |-> isfile]
      failed(err) == [error |-> err, path |-> NoPath, isfile |-> FALSE]
  IN CASE e.kind = "missing" -> failed("FileNotFoundError")
       [] e.kind = "file" -> found(TRUE, n, TRUE)
       [] e.kind = "dir" -> found(TRUE, n, FALSE)
       [] e.to = "outside_file" -> found(FALSE, <<"s", "e", "c", "r", "e", "t">>, TRUE)
       [] e.to = "nowhere" -> failed("FileNotFoundError")
       [] OTHER -> LET s == EntryAt(fs, Sibling(n))
                   IN CASE s.kind = "missing" -> failed("FileNotFoundError")
                        [] s.kind = "file" -> found(TRUE, Sibling(n), TRUE)
                        [] s.kind = "dir" -> found(TRUE, Sibling(n), FALSE)
                        [] s.to = "outside_file" -> found(FALSE, <<"s", "e", "c", "r", "e", "t">>, TRUE)
                        [] s.to = "nowhere" -> failed("FileNotFoundError")
                        [] OTHER -> failed("SymlinkLoop")

\* DownloadDecision without the relative_to(upload_root) test
DownloadDecision_unconfined(fs, filename) ==
  LET normalized_filename == secure_filename(filename)
      resolved == Resolve(fs, normalized_filename)
  IN IF normalized_filename = <<>> THEN "redirect"
     ELSE IF resolved.error = "FileNotFoundError" THEN "redirect"
     ELSE IF resolved.error # "none" THEN "redirect"
     ELSE IF resolved.isfile THEN "send"
     ELSE "redirect"

\* lines 353-399: what the handler decides before it sends anything
DownloadDecision(fs, filename) ==
  LET normalized_filename == secure_filename(filename)
      resolved == Resolve(fs, normalized_filename)
  IN IF normalized_filename = <<>> THEN "redirect"
     ELSE IF resolved.error = "FileNotFoundError" THEN "redirect"
     ELSE IF resolved.error # "none" THEN "redirect"
     ELSE IF ~resolved.path.inside THEN "redirect"
     ELSE IF resolved.isfile THEN "send"
     ELSE "redirect"

Redirect == [status |-> "redirect", path |-> NoPath]

\* whether a regular file is at the resolved path
FileAt(fs, path) == IF path.inside THEN EntryAt(fs, path.name).kind = "file" ELSE TRUE

(***************************************************************************)
(* One download request.  The cleanup job runs in another thread and may   *)
(* remove an entry between the handler's checks and send_file.             *)
(***************************************************************************)
MaxRequestLen == 3

RequestAlphabet == {"a", ".", "\\", " ", "/"}

InitDownload ==
  /\ files \in [EntryNames -> Entries]
  /\ \E n \in 0..MaxRequestLen : request \in [1..n -> RequestAlphabet]
  /\ response = NoResponse /\ dpc = "start" /\ target = NoPath /\ seen = files
  /\ IdleParse /\ IdleNormalize /\ IdleKeywords /\ IdleTable /\ IdleScheduler /\ IdleFolder

\* lines 351-390 and 397-403
DownloadCheck ==
  /\ dpc = "start"
  /\ IF DownloadDecision(files, request) = "send"
     THEN /\ dpc' = "send"
          /\ target' = Resolve(files, secure_filename(request)).path
          /\ UNCHANGED response
     ELSE /\ dpc' = "done"
          /\ response' = Redirect
          /\ UNCHANGED target
  /\ seen' = files
  /\ UNCHANGED <<files, request, notDownload>>

\* lines 391-395, and 400-403 when send_file raises
DownloadSend ==
  /\ dpc = "send"
  /\ dpc' = "done"
  /\ response' = IF FileAt(files, target) THEN [status |-> "file", path |-> target] ELSE Redirect
  /\ UNCHANGED <<files, request, target, seen, notDownload>>

\* cleanup_old_files, lines 137-142: an entry that is a file is removed
CleanupRemoves(n) ==
  /\ dpc = "send"
  /\ Resolve(files, n).error = "none" /\ Resolve(files, n).isfile
  /\ files' = [files EXCEPT ![n] = Missing]
  /\ UNCHANGED <<request, response, dpc, target, seen, notDownload>>

NextDownload == DownloadCheck \/ DownloadSend \/ \E n \in EntryNames : CleanupRemoves(n)

SpecDownload == InitDownload /\ [][NextDownload]_vars

\* the entry the sanitized name of the request resolved to when the handler looked
Looked == Resolve(seen, secure_filename(request))

\* C10: a file is served only when the sanitized name is not empty and
\* resolves to a regular file inside the upload folder, and what is served
\* is that file; a name that sanitizes to empty, that is missing or that
\* resolves outside the upload folder is answered by a redirect.
C10_Confinement ==
  dpc = "done" =>
    /\ response.status \in {"file", "redirect"}
    /\ response.status = "file" =>
         /\ secure_filename(request) # <<>>
         /\ Looked.error = "none" /\ Looked.isfile /\ Looked.path.inside
         /\ response.path = Looked.path
         /\ FileAt(files, response.path)
    /\ (secure_filename(request) = <<>> \/ Looked.error # "none" \/ ~Looked.path.inside) => response = Redirect

\* the request ".\a" is served the file "a" of the upload folder
C10_Witness ==
  /\ dpc = "done"
  /\ request = <<".", "\\", "a">>
  /\ response = [status |-> "file", path |-> [inside |-> TRUE, name |-> EntryA]]

(***************************************************************************)
(* The cleanup scheduler: app.py lines 148-183.  Threads of one process    *)
(* call start_cleanup_scheduler; the hook registered with atexit,          *)
(* _shutdown_scheduler, runs once it is registered.  Each statement of a   *)
(* function body is one step; _scheduler_lock is 0 when free, the caller's *)
(* number when held, HookId when the hook holds it.                        *)
(***************************************************************************)
NumThreads == 2

MaxCalls == 2

Threads == 1..NumThreads

HookId == NumThreads + 1

CleanupJobId == "cleanup-old-files"

\* line 166: BackgroundScheduler()
NewScheduler == [isNone |-> FALSE, jobs |-> <<>>, running |-> FALSE]

\* lines 167-173: add_job(..., id=job, replace_existing=True)
add_job(sched, job) ==
  IF \E k \in DOMAIN sched.jobs : sched.jobs[k] = job
  THEN sched
  ELSE [sched EXCEPT !.jobs = Append(@, job)]

\* a lock that never blocks
CanAcquire_nolock(holder) == TRUE

\* lines 155 and 164: with _scheduler_lock blocks until the lock is free
CanAcquire(holder) == holder = 0

InitScheduler ==
  /\ _scheduler_lock = 0 /\ _scheduler = NoScheduler /\ _scheduler_shutdown_registered = FALSE
  /\ spc = [th \in Threads |-> "idle"] /\ calls = [th \in Threads |-> 0] /\ hpc = "idle"
  /\ created = 0 /\ registered = 0 /\ starts = 0 /\ startedRunning = FALSE
  /\ IdleParse /\ IdleNormalize /\ IdleKeywords /\ IdleTable /\ IdleDownload /\ IdleFolder

\* line 164: with _scheduler_lock
StartAcquire(th) ==
  /\ spc[th] = "idle" /\ calls[th] < MaxCalls
  /\ CanAcquire(_scheduler_lock)
  /\ _scheduler_lock' = th
  /\ spc' = [spc EXCEPT ![th] = "check_none"]
  /\ calls' = [calls EXCEPT ![th] = @ + 1]
  /\ UNCHANGED <<_scheduler, _scheduler_shutdown_registered, hpc, created, registered, starts, startedRunning, notScheduler>>

\* line 165: if _scheduler is None
StartCheckNone(th) ==
  /\ spc[th] = "check_none"
  /\ spc' = [spc EXCEPT ![th] = IF _scheduler.isNone THEN "create" ELSE "check_running"]
  /\ UNCHANGED <<_scheduler_lock, _scheduler, _scheduler_shutdown_registered, calls, hpc, created, registered, starts, startedRunning, notScheduler>>

\* line 166: _scheduler = BackgroundScheduler()
StartCreate(th) ==
  /\ spc[th] = "create"
  /\ _scheduler' = NewScheduler
  /\ created' = created + 1
  /\ spc' = [spc EXCEPT ![th] = "add_job"]
  /\ UNCHANGED <<_scheduler_lock, _scheduler_shutdown_registered, calls, hpc, registered, starts, startedRunning, notScheduler>>

\* lines 167-173: _scheduler.add_job(...)
StartAddJob(th) ==
  /\ spc[th] = "add_job"
  /\ _scheduler' = add_job(_scheduler, CleanupJobId)
  /\ spc' = [spc EXCEPT ![th] = "check_running"]
  /\ UNCHANGED <<_scheduler_lock, _scheduler_shutdown_registered, calls, hpc, created, registered, starts, startedRunning, notScheduler>>

\* line 174: if not _scheduler.running
StartCheckRunning(th) ==
  /\ spc[th] = "check_running"
  /\ spc' = [spc EXCEPT ![th] = IF _scheduler.running THEN "release" ELSE "start"]
  /\ UNCHANGED <<_scheduler_lock, _scheduler, _scheduler_shutdown_registered, calls, hpc, created, registered, starts, startedRunning, notScheduler>>

\* line 176: _scheduler.start()
StartStart(th) ==
  /\ spc[th] = "start"
  /\ startedRunning' = (startedRunning \/ _scheduler.running)
  /\ _scheduler' = [_scheduler EXCEPT !.running = TRUE]
  /\ starts' = starts + 1
  /\ spc' = [spc EXCEPT ![th] = "check_registered"]
  /\ UNCHANGED <<_scheduler_lock, _scheduler_shutdown_registered, calls, hpc, created, registered, notScheduler>>

\* line 177: if not _scheduler_shutdown_registered
StartCheckRegistered(th) ==
  /\ spc[th] = "check_registered"
  /\ spc' = [spc EXCEPT ![th] = IF _scheduler_shutdown_registered THEN "release" ELSE "register"]
  /\ UNCHANGED <<_scheduler_lock, _scheduler, _scheduler_shutdown_registered, calls, hpc, created, registered, starts, startedRunning, notScheduler>>

\* lines 178-179: atexit.register(_shutdown_scheduler); the flag is set
StartRegister(th) ==
  /\ spc[th] = "register"
  /\ registered' = registered + 1
  /\ _scheduler_shutdown_registered' = TRUE
  /\ spc' = [spc EXCEPT ![th] = "release"]
  /\ UNCHANGED <<_scheduler_lock, _scheduler, calls, hpc, created, starts, startedRunning, notScheduler>>

\* line 180: the with block ends and the function returns
StartRelease(th) ==
  /\ spc[th] = "release"
  /\ _scheduler_lock' = IF _scheduler_lock = th THEN 0 ELSE _scheduler_lock
  /\ spc' = [spc EXCEPT ![th] = "idle"]
  /\ UNCHANGED <<_scheduler, _scheduler_shutdown_registered, calls, hpc, created, registered, starts, startedRunning, notScheduler>>

\* line 155: the registered hook runs and takes the lock
HookAcquire ==
  /\ hpc = "idle" /\ registered > 0
  /\ CanAcquire(_scheduler_lock)
  /\ _scheduler_lock' = HookId
  /\ hpc' = "check"
  /\ UNCHANGED <<_scheduler, _scheduler_shutdown_registered, spc, calls, created, registered, starts, startedRunning, notScheduler>>

\* lines 156-158: if _scheduler and _scheduler.running: _scheduler.shutdown()
HookShutdown ==
  /\ hpc = "check"
  /\ _scheduler' = IF ~_scheduler.isNone /\ _scheduler.running
                   THEN [_scheduler EXCEPT !.running = FALSE]
                   ELSE _scheduler
  /\ hpc' = "release"
  /\ UNCHANGED <<_scheduler_lock, _scheduler_shutdown_registered, spc, calls, created, registered, starts, startedRunning, notScheduler>>

\* line 158: the with block of the hook ends
HookRelease ==
  /\ hpc = "release"
  /\ _scheduler_lock' = IF _scheduler_lock = HookId THEN 0 ELSE _scheduler_lock
  /\ hpc' = "done"
  /\ UNCHANGED <<_scheduler, _scheduler_shutdown_registered, spc, calls, created, registered, starts, startedRunning, notScheduler>>

NextScheduler ==
  \/ \E th \in Threads : StartAcquire(th)
  \/ \E th \in Threads : StartCheckNone(th)
  \/ \E th \in Threads : StartCreate(th)
  \/ \E th \in Threads : StartAddJob(th)
  \/ \E th \in Threads : StartCheckRunning(th)
  \/ \E th \in Threads : StartStart(th)
  \/ \E th \in Threads : StartCheckRegistered(th)
  \/ \E th \in Threads : StartRegister(th)
  \/ \E th \in Threads : StartRelease(th)
  \/ HookAcquire
  \/ HookShutdown
  \/ HookRelease

SpecScheduler == InitScheduler /\ [][NextScheduler]_vars

(***************************************************************************)
(* Claims about the scheduler (checked under SpecScheduler).               *)
(***************************************************************************)
\* no caller is between creating the scheduler and adding its job
NoneCreating == \A th \in DOMAIN spc : spc[th] # "add_job"

\* C12: whatever the interleaving of the callers, at most one scheduler
\* object is created, it carries exactly the one cleanup job once its creator
\* has added it, start() is never called on a running scheduler, and the
\* shutdown hook is registered at most once.
C12_StartsOnce ==
  /\ created <= 1
  /\ (~_scheduler.isNone /\ NoneCreating) => _scheduler.jobs = <<CleanupJobId>>
  /\ ~startedRunning
  /\ registered <= 1

C12_Witness ==
  /\ \A th \in DOMAIN spc : spc[th] = "idle" /\ calls[th] >= 1
  /\ spc # <<>>
  /\ hpc = "done"
  /\ created = 1 /\ registered = 1 /\ starts = 2
  /\ _scheduler.running /\ _scheduler.jobs = <<CleanupJobId>>

(***************************************************************************)
(* The upload folder over time: cleanup_old_files (app.py lines 133-145)   *)
(* and one request to /upload (lines 191-346).  The clock counts minutes.  *)
(* The folder holds "old", a file processed earlier, "sub", a directory,   *)
(* and the two files of the request: "orig" is <uuid>_original_<name> and  *)
(* "proc" is <uuid>_processed_<name>.  os.remove of a file that exists     *)
(* removes it; of a file that is gone it raises FileNotFoundError.         *)
(***************************************************************************)
MaxTime == 62

\* line 141: timedelta(minutes=30)
CleanupAgeMinutes == 30

\* line 134: "older than 1 hour", in minutes
OneHour == 60

\* how much time passes in one step of the clock
TickSteps == {30, 31}

FileNames == {"old", "sub", "orig", "proc"}

Absent == [kind |-> "missing", ctime |-> 0]

FileAtTime(time) == [kind |-> "file", ctime |-> time]

DirAtTime(time) == [kind |-> "dir", ctime |-> time]

\* os.path.isfile / os.path.exists
isfile(entry) == entry.kind = "file"

exists(entry) == entry.kind # "missing"

\* the requests /upload receives
UploadRequests == {"GET", "nofile", "emptyname", "badext", "excel", "notexcel"}

\* line 80-81 and 193-207: which requests come to the point of saving the file
allowed_file(req) == req \in {"excel", "notexcel"}

\* lines 84-130: False for a file that is gone or is no Excel file
is_valid_excel_file(entry, req) == isfile(entry) /\ req = "excel"

\* lines 139-141: whether cleanup_old_files removes the entry
ShouldDelete(entry, current_time) ==
  isfile(entry) /\ current_time - entry.ctime > CleanupAgeMinutes

\* the except branch without its clean-up
AfterExcept_keep(folder) == folder

\* lines 322-325: if os.path.exists(upload_path): os.remove(upload_path)
AfterExcept(folder) ==
  IF exists(folder["orig"]) THEN [folder EXCEPT !["orig"] = Absent] ELSE folder

InitFolder ==
  /\ now = 0
  /\ \E o \in {Absent, FileAtTime(0)}, s \in {Absent, DirAtTime(0)} :
       tmp = [n \in FileNames |-> IF n = "old" THEN o ELSE IF n = "sub" THEN s ELSE Absent]
  /\ deleted = {}
  /\ ureq \in UploadRequests /\ upc = "start" /\ usaved = FALSE /\ uresp = "none"
  /\ IdleParse /\ IdleNormalize /\ IdleKeywords /\ IdleTable /\ IdleDownload /\ IdleScheduler

\* time passes
Tick ==
  /\ \E d \in TickSteps : now + d <= MaxTime /\ now' = now + d
  /\ UNCHANGED <<tmp, deleted, ureq, upc, usaved, uresp, notFolder>>

\* lines 133-145: one run of the job
cleanup_old_files ==
  /\ LET listed == {n \in FileNames : exists(tmp[n])}
         gone == {n \in listed : ShouldDelete(tmp[n], now)}
     IN /\ tmp' = [n \in FileNames |-> IF n \in gone THEN Absent ELSE tmp[n]]
        /\ deleted' = {[name |-> n, age |-> now - tmp[n].ctime] : n \in gone}
  /\ UNCHANGED <<now, ureq, upc, usaved, uresp, notFolder>>

\* lines 193-207 and 339-346: the requests that save nothing
UploadEnter ==
  /\ upc = "start"
  /\ IF allowed_file(ureq)
     THEN upc' = "save" /\ UNCHANGED uresp
     ELSE upc' = "returned" /\ uresp' = "redirect"
  /\ UNCHANGED <<now, tmp, deleted, ureq, usaved, notFolder>>

\* lines 209-215: file.save(upload_path) writes the file, or raises with or
\* without the file created
UploadSave ==
  /\ upc = "save"
  /\ \/ tmp' = [tmp EXCEPT !["orig"] = FileAtTime(now)] /\ usaved' = TRUE /\ upc' = "validate"
     \/ tmp' = [tmp EXCEPT !["orig"] = FileAtTime(now)] /\ usaved' = TRUE /\ upc' = "except"
     \/ UNCHANGED <<tmp, usaved>> /\ upc' = "except"
  /\ UNCHANGED <<now, deleted, ureq, uresp, notFolder>>

\* line 217: if not is_valid_excel_file(upload_path)
UploadValidate ==
  /\ upc = "validate"
  /\ upc' = IF is_valid_excel_file(tmp["orig"], ureq) THEN "process" ELSE "reject"
  /\ UNCHANGED <<now, tmp, deleted, ureq, usaved, uresp, notFolder>>

\* lines 218-223: os.remove(upload_path) and the redirect
UploadReject ==
  /\ upc = "reject"
  /\ IF exists(tmp["orig"])
     THEN tmp' = [tmp EXCEPT !["orig"] = Absent] /\ upc' = "returned" /\ uresp' = "invalid"
     ELSE UNCHANGED <<tmp, uresp>> /\ upc' = "except"
  /\ UNCHANGED <<now, deleted, ureq, usaved, notFolder>>

\* lines 225-306: the file is read, converted and written; any step may
\* raise, before or after the processed file is created
UploadProcess ==
  /\ upc = "process"
  /\ \/ exists(tmp["orig"]) /\ tmp' = [tmp EXCEPT !["proc"] = FileAtTime(now)] /\ upc' = "remove"
     \/ exists(tmp["orig"]) /\ tmp' = [tmp EXCEPT !["proc"] = FileAtTime(now)] /\ upc' = "except"
     \/ UNCHANGED tmp /\ upc' = "except"
  /\ UNCHANGED <<now, deleted, ureq, usaved, uresp, notFolder>>

\* lines 308-318: os.remove(upload_path) and the download page
UploadRemove ==
  /\ upc = "remove"
  /\ IF exists(tmp["orig"])
     THEN tmp' = [tmp EXCEPT !["orig"] = Absent] /\ upc' = "returned" /\ uresp' = "download"
     ELSE UNCHANGED <<tmp, uresp>> /\ upc' = "except"
  /\ UNCHANGED <<now, deleted, ureq, usaved, notFolder>>

\* lines 320-338: the clean-up after an error and the redirect
UploadExcept ==
  /\ upc = "except"
  /\ tmp' = AfterExcept(tmp)
  /\ upc' = "returned" /\ uresp' = "error"
  /\ UNCHANGED <<now, deleted, ureq, usaved, notFolder>>

NextFolder ==
  \/ Tick
  \/ cleanup_old_files
  \/ UploadEnter
  \/ UploadSave
  \/ UploadValidate
  \/ UploadReject
  \/ UploadProcess
  \/ UploadRemove
  \/ UploadExcept

SpecFolder == InitFolder /\ [][NextFolder]_vars

(***************************************************************************)
(* Claims about the folder (checked under SpecFolder).                     *)
(***************************************************************************)
\* C13: in every run of cleanup_old_files a regular file is deleted only if
\* it is more than one hour old; every younger file is left in place.
C13_OlderThanOneHour ==
  \A d \in deleted : d.age > OneHour

====
